---- MODULE Spec2Model ----
(***************************************************************************)
(* Model of the batch conversion orchestrator of Chromium-Automate-Cls:    *)
(* automate_convert_and_upload.py (main), core.py (queue and git helpers)  *)
(* and gemini.py (conversion with bounded retries).  automate.py inlines   *)
(* the same helpers and the same main.                                     *)
(*                                                                         *)
(* Text is a sequence of one-character strings.  A branch name is a        *)
(* sequence whose first element may be the token "automate" (the fixed     *)
(* eight-letter prefix) followed by the characters of its suffix.          *)
(***************************************************************************)
EXTENDS Integers, Sequences, FiniteSets, TLC

\* ------------------------------------------------------------------ bounds
\* Largest value of the command-line argument n that the model explores.
MaxN == 2
\* Longest queue file (in lines) of a run of main.
MaxQueue == 2
\* Longest queue file (in lines) given to remove_processed_path on its own.
MaxLines == 3
\* Largest number of branches in a repository given to branch allocation.
MaxBranches == 3

\* --------------------------------------------------------- program constants
MAX_API_RETRIES == 4

\* ------------------------------------------------------------- text helpers
Whitespace == {" ", "\t"}

RECURSIVE lstrip(_)
lstrip(s) ==
    IF s = <<>> THEN s
    ELSE IF Head(s) \in Whitespace THEN lstrip(Tail(s)) ELSE s

RECURSIVE rstrip(_)
rstrip(s) ==
    IF s = <<>> THEN s
    ELSE IF s[Len(s)] \in Whitespace THEN rstrip(SubSeq(s, 1, Len(s) - 1)) ELSE s

\* str.strip()
strip(s) == lstrip(rstrip(s))

\* str.lstrip('*')
RECURSIVE lstrip_star(_)
lstrip_star(s) ==
    IF s = <<>> THEN s
    ELSE IF Head(s) = "*" THEN lstrip_star(Tail(s)) ELSE s

\* The characters int() reads as a decimal number.
DecimalDigits == {"0", "1", "2", "3", "4", "5", "6", "7", "8", "9"}

\* Characters of which str.isdigit() is true although int() rejects them:
\* "sup2" stands for the superscript two (U+00B2), a legal character of a
\* git branch name.
OtherDigits == {"sup2"}

DigitVal(c) ==
    CASE c = "0" -> 0 [] c = "1" -> 1 [] c = "2" -> 2 [] c = "3" -> 3
      [] c = "4" -> 4 [] c = "5" -> 5 [] c = "6" -> 6 [] c = "7" -> 7
      [] c = "8" -> 8 [] c = "9" -> 9

DigitChar(d) ==
    CASE d = 0 -> "0" [] d = 1 -> "1" [] d = 2 -> "2" [] d = 3 -> "3"
      [] d = 4 -> "4" [] d = 5 -> "5" [] d = 6 -> "6" [] d = 7 -> "7"
      [] d = 8 -> "8" [] d = 9 -> "9"

\* str.isdigit(): non-empty and every character is a digit character.
isdigit(s) == s # <<>> /\ \A i \in 1..Len(s) : s[i] \in DecimalDigits \cup OtherDigits

\* int(s) raises ValueError unless every character is a decimal digit.
int_raises(s) == \E i \in 1..Len(s) : s[i] \notin DecimalDigits

RECURSIVE int_value(_, _)
int_value(s, acc) ==
    IF s = <<>> THEN acc ELSE int_value(Tail(s), 10 * acc + DigitVal(Head(s)))

\* int(s) for a string of decimal digits.
int(s) == int_value(s, 0)

\* The decimal text of a positive integer, as the f-string formats it.
RECURSIVE format_int(_)
format_int(k) ==
    IF k < 10 THEN <<DigitChar(k)>> ELSE Append(format_int(k \div 10), DigitChar(k % 10))

\* ------------------------------------------------------------ queue helpers
\* read_file_paths_raw: the non-blank lines, in file order.
NonBlank(line) == strip(line) # <<>>

read_file_paths_raw(file) == SelectSeq(file, NonBlank)

\* The write loop of remove_processed_path: every line whose stripped text
\* differs from `processed` is written, in order.
RECURSIVE write_lines(_, _, _)
write_lines(lines, processed, out) ==
    IF lines = <<>> THEN out
    ELSE write_lines(Tail(lines), processed,
                     IF strip(Head(lines)) # processed
                     THEN Append(out, Head(lines)) ELSE out)

\* A bug the queue rewrite could have: the line is compared untrimmed.
remove_unstripped(file, processed_path) ==
    LET Keep(line) == line # strip(processed_path) IN SelectSeq(file, Keep)

\* remove_processed_path when both opens and every write succeed.
remove_processed_path(file, processed_path) ==
    write_lines(file, strip(processed_path), <<>>)

\* What the queue file can hold when the rewrite stops after the file was
\* opened for writing (and so truncated): the lines written so far.
PartialRewrites(file, processed_path) ==
    LET kept == remove_processed_path(file, processed_path)
    IN  {SubSeq(kept, 1, k) : k \in 0..Len(kept)}

\* raw_paths[:n] with Python's slice semantics (a negative n counts from the end).
slice_to(s, k) ==
    LET stop == IF k < 0 THEN (IF Len(s) + k < 0 THEN 0 ELSE Len(s) + k)
                ELSE (IF k > Len(s) THEN Len(s) ELSE k)
    IN  SubSeq(s, 1, stop)

\* The loop building abs_path_map: one entry, raw.strip(), per sliced raw path.
stripped_paths(raws) == [i \in 1..Len(raws) |-> strip(raws[i])]

\* ------------------------------------------------------- branch allocation
Prefix == "automate"
None == <<>>

startswith_automate(name) == name # <<>> /\ Head(name) = Prefix

\* The elements of a finite set in some fixed order.
RECURSIVE SeqOf(_)
SeqOf(S) ==
    IF S = {} THEN <<>>
    ELSE LET x == CHOOSE y \in S : TRUE IN <<x>> \o SeqOf(S \ {x})

\* The lines `git branch --list 'automate*'` prints: one per branch whose name
\* matches the pattern, the checked-out one marked with an asterisk.
git_branch_list(names, current) ==
    LET shown == SeqOf({b \in names : startswith_automate(b)})
    IN  [i \in 1..Len(shown) |->
            (IF shown[i] = current THEN <<"*", " ">> ELSE <<" ", " ">>) \o shown[i]]

\* The loop of get_next_automate_branch over the listed lines.  int() raising
\* ValueError ends the function (raised).
RECURSIVE scan_lines(_, _)
scan_lines(lines, max_n) ==
    IF lines = <<>> THEN [raised |-> FALSE, max_n |-> max_n]
    ELSE LET name == strip(lstrip_star(strip(Head(lines))))
             suffix == Tail(name)
         IN  IF startswith_automate(name) /\ isdigit(suffix)
             THEN IF int_raises(suffix)
                  THEN [raised |-> TRUE, max_n |-> max_n]
                  ELSE scan_lines(Tail(lines),
                                  IF int(suffix) > max_n THEN int(suffix) ELSE max_n)
             ELSE scan_lines(Tail(lines), max_n)

\* get_next_automate_branch on the captured stdout: "automate" + (max_n + 1).
get_next_automate_branch(out) ==
    LET r == scan_lines(out, 0)
    IN  [raised |-> r.raised,
         branch |-> IF r.raised THEN None ELSE <<Prefix>> \o format_int(r.max_n + 1)]

\* ------------------------------------------------------------- repository
\* Paths the queue can name.  PathA and PathB are tracked files of the
\* workspace; PathC names no file.
PathA == <<"a">>
PathB == <<"b">>
PathC == <<"c">>
Paths == {PathA, PathB, PathC}

Absent == <<"absent">>
BaseContent(p) == IF p = PathC THEN Absent ELSE <<"x">>

\* A commit is the sequence of changes [path, content] made on top of the
\* commit the run starts from (the empty sequence).
BaseCommit == <<>>

\* The content of path p in commit c.
Tree(c, p) ==
    LET at == {i \in 1..Len(c) : c[i].path = p}
    IN  IF at = {} THEN BaseContent(p)
        ELSE c[CHOOSE i \in at : \A j \in at : j <= i].content

Baseline == <<"main">>
Automate(suffix) == <<Prefix>> \o suffix

VARIABLES
    pc,              \* the statement main is at
    n,               \* args.n
    queueFile,       \* the lines of the queue file
    queue0,          \* the lines of the queue file when the run started
    abs_path_map,    \* the work list: the stripped raw paths of the first n lines
    idx,             \* position of the for loop in abs_path_map
    original_branch, \* main's original_branch
    original_head,   \* main's original_head
    tmp_branch,      \* main's tmp_branch
    head,            \* the checked-out branch of the workspace
    tips,            \* branch name -> the commit it points to
    disk,            \* path -> content of the file in the working tree
    staged,          \* paths staged in the index
    tmpfiles,        \* path -> content of its <path>.converted.tmp sibling
    attempt,         \* call_gemini_with_retries' attempt
    new_content,     \* convert_file_with_gemini's new_content
    original,        \* convert_file_with_gemini's original
    resp,            \* the text of the response of the attempt, if it has one
    waits,           \* the time.sleep calls of the conversion call, in milliseconds
    alloc,           \* get_next_automate_branch's result
    cur,             \* what happened so far to the item in flight
    hist             \* what happened to the finished items, in order

vars == <<pc, n, queueFile, queue0, abs_path_map, idx, original_branch,
          original_head, tmp_branch, head, tips, disk, staged, tmpfiles,
          attempt, new_content, original, resp, waits, alloc, cur, hist>>

queueVars == <<queueFile, queue0>>
gitVars == <<head, tips, disk, staged, tmpfiles>>
runVars == <<n, abs_path_map, original_branch, original_head>>

NoAlloc == [raised |-> FALSE, branch |-> None]

\* The record kept for an item while main processes it.
NewItem(path) ==
    [path |-> path, branch |-> None, conv |-> "none", test |-> "none",
     changes |-> "none", staged |-> FALSE, committed |-> FALSE,
     uploaded |-> FALSE, removed |-> "none", err |-> "none",
     swallowed |-> "none", intr |-> "none", rb |-> "none"]

NoItem == NewItem(None)

\* The item reached a terminal success state of the per-item state machine.
Success(it) ==
    \/ it.conv = "no-change"
    \/ it.conv = "modified" /\ it.test = "pass" /\ it.changes = "no"
    \/ it.conv = "modified" /\ it.test = "pass" /\ it.uploaded

\* ------------------------------------------------------------ git commands
Dirty(p) == disk[p] # Tree(tips[head], p)

\* `git checkout b` refuses to overwrite a locally changed file that differs
\* between the two commits.
CheckoutConflict(b) ==
    \E p \in Paths : Dirty(p) /\ Tree(tips[head], p) # Tree(tips[b], p)

DiskAfterCheckout(b) ==
    [p \in Paths |-> IF Dirty(p) THEN disk[p] ELSE Tree(tips[b], p)]

\* `git reset --hard <commit>` on the checked-out branch.
TipsAfterReset(commit) == [tips EXCEPT ![head] = commit]
DiskAt(commit) == [p \in Paths |-> Tree(commit, p)]

\* `git commit`: the staged paths with their content on disk, on top of HEAD.
RECURSIVE CommitOf(_, _)
CommitOf(base, ps) ==
    IF ps = <<>> THEN base
    ELSE CommitOf(Append(base, [path |-> Head(ps), content |-> disk[Head(ps)]]), Tail(ps))

\* ------------------------------------------------------------------- Init
BoundedSeq(S, k) == UNION {[1..m -> S] : m \in 0..k}

\* The lines a queue file of a run is made of: a plain path, a path with
\* leading whitespace, and a path that names no file.
QueueLines == {PathA, <<" ">> \o PathB, PathC}

convVars == <<attempt, new_content, original, resp, waits>>

\* No file has a temporary sibling.
NoTmpFiles == [p \in Paths |-> Absent]

InitRepo ==
    /\ head = Baseline
    /\ tips = (Baseline :> BaseCommit) @@ (Automate(<<"2">>) :> BaseCommit)
    /\ disk = [p \in Paths |-> BaseContent(p)]
    /\ staged = {}
    /\ tmpfiles = NoTmpFiles

InitLocals ==
    /\ abs_path_map = <<>>
    /\ idx = 1
    /\ original_branch = None
    /\ original_head = BaseCommit
    /\ tmp_branch = None
    /\ attempt = 0
    /\ new_content = None
    /\ original = None
    /\ resp = <<>>
    /\ waits = <<>>
    /\ alloc = NoAlloc
    /\ hist = <<>>

Init ==
    /\ pc = "resolve"
    /\ n \in -1..MaxN
    /\ queueFile \in BoundedSeq(QueueLines, MaxQueue)
    /\ queue0 = queueFile
    /\ InitRepo
    /\ InitLocals
    /\ cur = NoItem

\* ------------------------------------------------------------ main: set-up
\* resolve_chromium_src() in its try: a failure ends the run with sys.exit(1).
ResolveSrc ==
    /\ pc = "resolve"
    /\ \E ok \in BOOLEAN : pc' = IF ok THEN "init_gemini" ELSE "exit"
    /\ UNCHANGED <<runVars, queueVars, gitVars, convVars, idx, tmp_branch, alloc, cur, hist>>

\* A set-up that captures the baseline branch before it finds the credential
\* missing.
InitGeminiAfterBaseline ==
    /\ pc = "init_gemini"
    /\ \/ pc' = "read_queue" /\ UNCHANGED original_branch
       \/ pc' = "exit" /\ original_branch' = head
    /\ UNCHANGED <<n, abs_path_map, original_head, queueVars, gitVars, convVars, idx,
                   tmp_branch, alloc, cur, hist>>

\* initialize_gemini_client() in its try: a failure ends the run with sys.exit(1).
InitGemini ==
    /\ pc = "init_gemini"
    /\ \E ok \in BOOLEAN : pc' = IF ok THEN "read_queue" ELSE "exit"
    /\ UNCHANGED <<runVars, queueVars, gitVars, convVars, idx, tmp_branch, alloc, cur, hist>>

\* raw_paths = read_file_paths_raw(...); return when empty; build abs_path_map.
ReadQueue ==
    /\ pc = "read_queue"
    /\ LET raw_paths == read_file_paths_raw(queueFile)
       IN  IF raw_paths = <<>>
           THEN pc' = "done" /\ UNCHANGED abs_path_map
           ELSE /\ abs_path_map' = stripped_paths(slice_to(raw_paths, n))
                /\ pc' = "cur_branch"
    /\ UNCHANGED <<n, original_branch, original_head, queueVars, gitVars, convVars,
                   idx, tmp_branch, alloc, cur, hist>>

\* original_branch = current_branch(...): outside any try, a failure ends main.
CurrentBranch ==
    /\ pc = "cur_branch"
    /\ \/ original_branch' = head /\ pc' = "head_sha"
       \/ pc' = "crashed" /\ UNCHANGED original_branch
    /\ UNCHANGED <<n, abs_path_map, original_head, queueVars, gitVars, convVars,
                   idx, tmp_branch, alloc, cur, hist>>

\* original_head = head_sha(...).
HeadSha ==
    /\ pc = "head_sha"
    /\ \/ original_head' = tips[head] /\ pc' = "loop"
       \/ pc' = "crashed" /\ UNCHANGED original_head
    /\ UNCHANGED <<n, abs_path_map, original_branch, queueVars, gitVars, convVars,
                   idx, tmp_branch, alloc, cur, hist>>

\* A loop that captures the commit of the workspace again for every item.
LoopNextRecapture ==
    /\ pc = "loop"
    /\ IF idx <= Len(abs_path_map)
       THEN /\ cur' = NewItem(abs_path_map[idx])
            /\ tmp_branch' = None
            /\ attempt' = 0
            /\ new_content' = None
            /\ original' = None
            /\ resp' = <<>>
            /\ waits' = <<>>
            /\ alloc' = NoAlloc
            /\ original_head' = tips[head]
            /\ pc' = "reset_hard"
       ELSE /\ pc' = "done"
            /\ UNCHANGED <<cur, tmp_branch, convVars, alloc, original_head>>
    /\ UNCHANGED <<n, abs_path_map, original_branch, queueVars, gitVars, idx, hist>>

\* The for statement: the next (raw_rel, abs_path), tmp_branch = None; or the
\* end of the loop and "All done.".
LoopNext ==
    /\ pc = "loop"
    /\ IF idx <= Len(abs_path_map)
       THEN /\ cur' = NewItem(abs_path_map[idx])
            /\ tmp_branch' = None
            /\ attempt' = 0
            /\ new_content' = None
            /\ original' = None
            /\ resp' = <<>>
            /\ waits' = <<>>
            /\ alloc' = NoAlloc
            /\ pc' = "reset_hard"
       ELSE /\ pc' = "done"
            /\ UNCHANGED <<cur, tmp_branch, convVars, alloc>>
    /\ UNCHANGED <<runVars, queueVars, gitVars, idx, hist>>

\* --------------------------------------------------- main: leaving an item
\* An exception raised by `step` in the try body reaches `except Exception`.
Raise(step) ==
    /\ pc' = "exc_checkout"
    /\ cur' = [cur EXCEPT !.err = step]

\* A step of the try body fails without any effect of its own.
Fail(step) ==
    /\ Raise(step)
    /\ UNCHANGED <<runVars, queueVars, gitVars, convVars, idx, tmp_branch, alloc, hist>>

\* What is kept of a finished item.
Summary(item) ==
    [path |-> item.path, branch |-> item.branch, conv |-> item.conv,
     test |-> item.test, changes |-> item.changes, uploaded |-> item.uploaded,
     removed |-> item.removed]

\* A loop that ends with the item instead of going on to the next one.
ContinueAndStop(item) ==
    /\ cur' = item
    /\ hist' = Append(hist, [path |-> item.path, branch |-> item.branch,
                             conv |-> item.conv, test |-> item.test,
                             changes |-> item.changes, uploaded |-> item.uploaded,
                             removed |-> item.removed])
    /\ idx' = idx + 1
    /\ pc' = "done"

\* `continue`, or the end of the loop body: the item is finished.
Continue(item) ==
    /\ cur' = item
    /\ hist' = Append(hist, Summary(item))
    /\ idx' = idx + 1
    /\ pc' = "loop"

\* `break` at the end of `except KeyboardInterrupt`.
Break(item) ==
    /\ cur' = item
    /\ hist' = Append(hist, Summary(item))
    /\ idx' = idx
    /\ pc' = "done"

\* ------------------------------------------------ main: workspace and branch
\* ensure_clean_workspace, first command: git reset --hard.
ResetHard ==
    /\ pc = "reset_hard"
    /\ \/ /\ disk' = DiskAt(tips[head])
          /\ staged' = {}
          /\ pc' = "clean"
          /\ UNCHANGED <<runVars, queueVars, head, tips, tmpfiles, convVars, idx,
                         tmp_branch, alloc, cur, hist>>
       \/ Fail("reset_hard")

\* An ensure_clean_workspace whose git clean removes nothing.
CleanLeavesFiles ==
    /\ pc = "clean"
    /\ \/ /\ pc' = "list_branches"
          /\ UNCHANGED <<runVars, queueVars, gitVars, convVars, idx, tmp_branch, alloc,
                         cur, hist>>
       \/ Fail("clean")

\* ensure_clean_workspace, second command: git clean -fd.
Clean ==
    /\ pc = "clean"
    /\ \/ /\ tmpfiles' = NoTmpFiles
          /\ pc' = "list_branches"
          /\ UNCHANGED <<runVars, queueVars, head, tips, disk, staged, convVars, idx,
                         tmp_branch, alloc, cur, hist>>
       \/ Fail("clean")

\* get_next_automate_branch: git branch --list through run_command_no_raise
\* (a failed command leaves stdout empty), then the scan of its output.
ListBranches ==
    /\ pc = "list_branches"
    /\ \E failed \in BOOLEAN :
          LET out == IF failed THEN <<>> ELSE git_branch_list(DOMAIN tips, head)
              r == get_next_automate_branch(out)
              c == IF failed THEN [cur EXCEPT !.swallowed = "list_branches"] ELSE cur
          IN  /\ alloc' = r
              /\ IF r.raised
                 THEN pc' = "exc_checkout" /\ cur' = [c EXCEPT !.err = "list_branches"]
                 ELSE pc' = "checkout_b" /\ cur' = c
    /\ UNCHANGED <<runVars, queueVars, gitVars, convVars, idx, tmp_branch, hist>>

\* A create_temporary_branch that creates the branch without checking it out.
CreateWithoutCheckout ==
    /\ pc = "checkout_b"
    /\ \/ /\ alloc.branch \notin DOMAIN tips
          /\ tips' = tips @@ (alloc.branch :> tips[head])
          /\ tmp_branch' = alloc.branch
          /\ cur' = [cur EXCEPT !.branch = alloc.branch]
          /\ pc' = "exists"
          /\ UNCHANGED <<runVars, queueVars, head, disk, staged, tmpfiles, convVars, idx,
                         alloc, hist>>
       \/ Fail("checkout_b")

\* create_temporary_branch: git checkout -b <branch>, which git refuses when
\* the branch exists; tmp_branch is assigned when the call returns.
CheckoutNew ==
    /\ pc = "checkout_b"
    /\ \/ /\ alloc.branch \notin DOMAIN tips
          /\ tips' = tips @@ (alloc.branch :> tips[head])
          /\ head' = alloc.branch
          /\ tmp_branch' = alloc.branch
          /\ cur' = [cur EXCEPT !.branch = alloc.branch]
          /\ pc' = "exists"
          /\ UNCHANGED <<runVars, queueVars, disk, staged, tmpfiles, convVars, idx,
                         alloc, hist>>
       \/ Fail("checkout_b")

\* ---------------------------------------------------------- main: conversion
\* The text some responses of the capability have.
Padded(text) == text \o <<" ">>
Different(text) == IF strip(text) = <<"y">> THEN <<"x">> ELSE <<"y">>
\* str(resp): what new_text falls back to when resp.text and resp.content are
\* empty or missing.
ReprText == <<"r">>

\* The values resp.text can have for a file whose content is `original`.
ResponseTexts(text) == {<<>>, <<" ">>, Padded(text), Different(text)}

\* new_text = getattr(resp, 'text', None) or getattr(resp, 'content', None) or str(resp)
new_text_of(text) == IF text = <<>> THEN ReprText ELSE text

\* API_BACKOFF_BASE, 1.5, in tenths.
API_BACKOFF_BASE_TENTHS == 15

RECURSIVE pow(_, _)
pow(b, e) == IF e = 0 THEN 1 ELSE b * pow(b, e - 1)

\* wait = (API_BACKOFF_BASE ** (attempt - 1)) + (attempt * 0.1), in milliseconds.
wait(k) == (1000 * pow(API_BACKOFF_BASE_TENTHS, k - 1)) \div pow(10, k - 1) + k * 100

\* A conversion that creates the temporary file, holding the original
\* content, before it calls the capability.
ExistsAndTouch ==
    /\ pc = "exists"
    /\ IF disk[cur.path] = Absent
       THEN Fail("not_found")
       ELSE /\ original' = disk[cur.path]
            /\ tmpfiles' = [tmpfiles EXCEPT ![cur.path] = disk[cur.path]]
            /\ attempt' = 1
            /\ pc' = "call"
            /\ UNCHANGED <<runVars, queueVars, head, tips, disk, staged, new_content,
                           resp, waits, idx, tmp_branch, alloc, cur, hist>>

\* convert_file_with_gemini up to the call: p.exists(), read_text, build_prompt.
Exists ==
    /\ pc = "exists"
    /\ IF disk[cur.path] = Absent
       THEN Fail("not_found")
       ELSE /\ original' = disk[cur.path]
            /\ attempt' = 1
            /\ pc' = "call"
            /\ UNCHANGED <<runVars, queueVars, gitVars, new_content, resp, waits, idx,
                           tmp_branch, alloc, cur, hist>>

\* One attempt of call_gemini_with_retries; on a valid text the function
\* returns and convert_file_with_gemini compares it with the original.
Call ==
    /\ pc = "call"
    /\ \/ \* the call raises
          /\ resp' = <<>>
          /\ pc' = "sleep"
          /\ UNCHANGED <<runVars, queueVars, gitVars, attempt, new_content, original,
                         waits, idx, tmp_branch, alloc, cur, hist>>
       \/ \E text \in ResponseTexts(original) :
             LET new_text == new_text_of(text)
             IN  /\ resp' = <<text>>
                 /\ IF strip(new_text) = <<>>
                    THEN \* "Gemini returned empty response."
                         /\ pc' = "sleep"
                         /\ UNCHANGED <<runVars, queueVars, gitVars, attempt, new_content,
                                        original, waits, idx, tmp_branch, alloc, cur, hist>>
                    ELSE IF strip(new_text) = strip(original)
                    THEN /\ cur' = [cur EXCEPT !.conv = "no-change"]
                         /\ attempt' = 0
                         /\ waits' = <<>>
                         /\ pc' = "nc_checkout"
                         /\ UNCHANGED <<runVars, queueVars, gitVars, new_content, original,
                                        idx, tmp_branch, alloc, hist>>
                    ELSE /\ new_content' = new_text
                         /\ attempt' = 0
                         /\ waits' = <<>>
                         /\ pc' = "write_tmp"
                         /\ UNCHANGED <<runVars, queueVars, gitVars, original, idx,
                                        tmp_branch, alloc, cur, hist>>

\* A retry loop that starts over after the last attempt.
SleepAndStartOver ==
    /\ pc = "sleep"
    /\ resp' = <<>>
    /\ waits' = IF attempt < MAX_API_RETRIES THEN Append(waits, wait(attempt)) ELSE <<>>
    /\ attempt' = IF attempt < MAX_API_RETRIES THEN attempt + 1 ELSE 1
    /\ pc' = "call"
    /\ UNCHANGED <<runVars, queueVars, gitVars, new_content, original, idx, tmp_branch,
                   alloc, cur, hist>>

\* A retry loop that makes one attempt more than MAX_API_RETRIES.
SleepOnceMore ==
    /\ pc = "sleep"
    /\ waits' = Append(waits, wait(attempt))
    /\ resp' = <<>>
    /\ IF attempt <= MAX_API_RETRIES
       THEN /\ attempt' = attempt + 1
            /\ pc' = "call"
            /\ UNCHANGED <<runVars, queueVars, gitVars, new_content, original, idx,
                           tmp_branch, alloc, cur, hist>>
       ELSE /\ pc' = "exc_checkout"
            /\ cur' = [cur EXCEPT !.err = "exhausted"]
            /\ UNCHANGED <<runVars, queueVars, gitVars, attempt, new_content, original,
                           idx, tmp_branch, alloc, hist>>

\* The except clause of an attempt: time.sleep(wait), then the next attempt,
\* or "All Gemini attempts failed." after the last one.
Sleep ==
    /\ pc = "sleep"
    /\ waits' = Append(waits, wait(attempt))
    /\ resp' = <<>>
    /\ IF attempt < MAX_API_RETRIES
       THEN /\ attempt' = attempt + 1
            /\ pc' = "call"
            /\ UNCHANGED <<runVars, queueVars, gitVars, new_content, original, idx,
                           tmp_branch, alloc, cur, hist>>
       ELSE /\ Raise("exhausted")
            /\ UNCHANGED <<runVars, queueVars, gitVars, attempt, new_content, original,
                           idx, tmp_branch, alloc, hist>>

\* A conversion that writes the new content straight into the file.
WriteInPlace ==
    /\ pc = "write_tmp"
    /\ \/ /\ disk' = [disk EXCEPT ![cur.path] = new_content]
          /\ pc' = "replace"
          /\ UNCHANGED <<runVars, queueVars, head, tips, staged, tmpfiles, convVars, idx,
                         tmp_branch, alloc, cur, hist>>
       \/ /\ \E k \in 0..Len(new_content) :
                disk' = [disk EXCEPT ![cur.path] = SubSeq(new_content, 1, k)]
          /\ Raise("write_tmp")
          /\ UNCHANGED <<runVars, queueVars, head, tips, staged, tmpfiles, convVars, idx,
                         tmp_branch, alloc, hist>>

\* tmp.write_text(new_content): a failed write leaves the temporary file as
\* it was, or with the part of new_content written so far.
WriteTmp ==
    /\ pc = "write_tmp"
    /\ \/ /\ tmpfiles' = [tmpfiles EXCEPT ![cur.path] = new_content]
          /\ pc' = "replace"
          /\ UNCHANGED <<runVars, queueVars, head, tips, disk, staged, convVars, idx,
                         tmp_branch, alloc, cur, hist>>
       \/ /\ \E left \in {tmpfiles[cur.path]}
                         \cup {SubSeq(new_content, 1, k) : k \in 0..(Len(new_content) - 1)} :
                tmpfiles' = [tmpfiles EXCEPT ![cur.path] = left]
          /\ Raise("write_tmp")
          /\ UNCHANGED <<runVars, queueVars, head, tips, disk, staged, convVars, idx,
                         tmp_branch, alloc, hist>>

\* os.replace(tmp, p): the file becomes the temporary file; return "modified".
Replace ==
    /\ pc = "replace"
    /\ \/ /\ disk' = [disk EXCEPT ![cur.path] = tmpfiles[cur.path]]
          /\ tmpfiles' = [tmpfiles EXCEPT ![cur.path] = Absent]
          /\ new_content' = None
          /\ resp' = <<>>
          /\ cur' = [cur EXCEPT !.conv = "modified"]
          /\ pc' = "run_test"
          /\ UNCHANGED <<runVars, queueVars, head, tips, staged, attempt, original, waits,
                         idx, tmp_branch, alloc, hist>>
       \/ Fail("replace")

\* ------------------------------------------ main: validation and publishing
\* A main that goes on to the change detection whatever the test returned.
RunTestIgnored ==
    /\ pc = "run_test"
    /\ \/ /\ \E result \in {"pass", "fail"} : cur' = [cur EXCEPT !.test = result]
          /\ pc' = "diff"
          /\ UNCHANGED <<runVars, queueVars, gitVars, convVars, idx, tmp_branch,
                         alloc, hist>>
       \/ Fail("run_test")

\* run_single_web_test: the log directory, the test through
\* run_command_no_raise, the log file; True iff the exit status is zero.
RunTest ==
    /\ pc = "run_test"
    /\ \/ /\ cur' = [cur EXCEPT !.test = "pass"]
          /\ pc' = "diff"
          /\ UNCHANGED <<runVars, queueVars, gitVars, convVars, idx, tmp_branch,
                         alloc, hist>>
       \/ /\ cur' = [cur EXCEPT !.test = "fail"]
          /\ pc' = "tf_checkout"
          /\ UNCHANGED <<runVars, queueVars, gitVars, convVars, idx, tmp_branch,
                         alloc, hist>>
       \/ Fail("run_test")

\* Exit statuses of git diff --quiet: 0 no difference, 1 differences, 128 error.
DiffStatus == {0, 1, 128}

\* file_has_changes, first command: git diff --quiet, any non-zero status is
\* read as "changed".
Diff ==
    /\ pc = "diff"
    /\ \E rc \in DiffStatus :
          IF rc = 0
          THEN pc' = "diff_cached" /\ UNCHANGED cur
          ELSE /\ pc' = "add"
               /\ cur' = [cur EXCEPT !.changes = "yes",
                                     !.swallowed = IF rc = 1 THEN @ ELSE "diff"]
    /\ UNCHANGED <<runVars, queueVars, gitVars, convVars, idx, tmp_branch, alloc, hist>>

\* file_has_changes, second command: git diff --cached --quiet.
DiffCached ==
    /\ pc = "diff_cached"
    /\ \E rc \in DiffStatus :
          IF rc = 0
          THEN pc' = "nochg_checkout" /\ cur' = [cur EXCEPT !.changes = "no"]
          ELSE /\ pc' = "add"
               /\ cur' = [cur EXCEPT !.changes = "yes",
                                     !.swallowed = IF rc = 1 THEN @ ELSE "diff"]
    /\ UNCHANGED <<runVars, queueVars, gitVars, convVars, idx, tmp_branch, alloc, hist>>

\* commit_and_upload: git add <filepath>.
GitAdd ==
    /\ pc = "add"
    /\ \/ /\ staged' = staged \cup {cur.path}
          /\ cur' = [cur EXCEPT !.staged = TRUE]
          /\ pc' = "commit"
          /\ UNCHANGED <<runVars, queueVars, head, tips, disk, tmpfiles, convVars, idx,
                         tmp_branch, alloc, hist>>
       \/ Fail("add")

\* commit_and_upload: git commit -m <msg>.
GitCommit ==
    /\ pc = "commit"
    /\ \/ /\ tips' = [tips EXCEPT ![head] = CommitOf(tips[head], SeqOf(staged))]
          /\ staged' = {}
          /\ cur' = [cur EXCEPT !.committed = TRUE]
          /\ pc' = "upload"
          /\ UNCHANGED <<runVars, queueVars, head, disk, tmpfiles, convVars, idx,
                         tmp_branch, alloc, hist>>
       \/ Fail("commit")

\* commit_and_upload: git cl upload.
Upload ==
    /\ pc = "upload"
    /\ \/ /\ cur' = [cur EXCEPT !.uploaded = TRUE]
          /\ pc' = "ok_checkout"
          /\ UNCHANGED <<runVars, queueVars, gitVars, convVars, idx, tmp_branch,
                         alloc, hist>>
       \/ Fail("upload")

\* --------------------------------------------------- main: the success tails
SuccessCheckouts == {"nc_checkout", "nochg_checkout", "ok_checkout"}

\* checkout_branch(original_branch) on the three paths that end in a removal.
CheckoutOriginal ==
    /\ pc \in SuccessCheckouts
    /\ \/ /\ ~CheckoutConflict(original_branch)
          /\ head' = original_branch
          /\ disk' = DiskAfterCheckout(original_branch)
          /\ pc' = "remove"
          /\ UNCHANGED <<runVars, queueVars, tips, staged, tmpfiles, convVars, idx,
                         tmp_branch, alloc, cur, hist>>
       \/ Fail(pc)

\* remove_processed_path(queue_file, raw_rel), then `continue` or the end of
\* the loop body.  An IOError is logged and the function returns: the file is
\* as it was (no open succeeded) or holds the lines written so far.
Remove ==
    /\ pc = "remove"
    /\ \/ /\ queueFile' = remove_processed_path(queueFile, cur.path)
          /\ Continue([cur EXCEPT !.removed = "done"])
       \/ /\ queueFile' \in {queueFile} \cup PartialRewrites(queueFile, cur.path)
          /\ Continue([cur EXCEPT !.removed = "failed", !.swallowed = "remove"])
    /\ UNCHANGED <<runVars, queue0, gitVars, convVars, tmp_branch, alloc>>

\* ------------------------------------------------------- main: the rollbacks
\* Rollback after a failed test, first command; an exception is logged and
\* the item ends.
TfCheckout ==
    /\ pc = "tf_checkout"
    /\ \/ /\ ~CheckoutConflict(original_branch)
          /\ head' = original_branch
          /\ disk' = DiskAfterCheckout(original_branch)
          /\ cur' = [cur EXCEPT !.rb = "checkout_ok"]
          /\ pc' = "tf_reset"
          /\ UNCHANGED <<idx, hist>>
       \/ /\ Continue([cur EXCEPT !.rb = "checkout_failed", !.swallowed = "tf_checkout"])
          /\ UNCHANGED <<head, disk>>
    /\ UNCHANGED <<runVars, queueVars, tips, staged, tmpfiles, convVars, tmp_branch, alloc>>

\* A rollback after a failed test that leaves out the reset.
TfResetLeftOut ==
    /\ pc = "tf_reset"
    /\ cur' = [cur EXCEPT !.rb = "complete"]
    /\ hist' = Append(hist, [path |-> cur.path, branch |-> cur.branch, conv |-> cur.conv,
                             test |-> cur.test, changes |-> cur.changes,
                             uploaded |-> cur.uploaded, removed |-> cur.removed])
    /\ idx' = idx + 1
    /\ pc' = "loop"
    /\ UNCHANGED <<runVars, queueVars, gitVars, convVars, tmp_branch, alloc>>

\* Rollback after a failed test, second command: git reset --hard original_head.
TfReset ==
    /\ pc = "tf_reset"
    /\ \/ /\ tips' = TipsAfterReset(original_head)
          /\ disk' = DiskAt(original_head)
          /\ staged' = {}
          /\ Continue([cur EXCEPT !.rb = "complete"])
       \/ /\ Continue([cur EXCEPT !.rb = "reset_failed", !.swallowed = "tf_reset"])
          /\ UNCHANGED <<tips, disk, staged>>
    /\ UNCHANGED <<runVars, queueVars, head, tmpfiles, convVars, tmp_branch, alloc>>

\* except Exception: checkout_branch(original_branch); a failure is logged
\* and the loop continues.
ExcCheckout ==
    /\ pc = "exc_checkout"
    /\ \/ /\ ~CheckoutConflict(original_branch)
          /\ head' = original_branch
          /\ disk' = DiskAfterCheckout(original_branch)
          /\ cur' = [cur EXCEPT !.rb = "checkout_ok"]
          /\ pc' = "exc_reset"
          /\ UNCHANGED <<idx, hist>>
       \/ /\ Continue([cur EXCEPT !.rb = "checkout_failed"])
          /\ UNCHANGED <<head, disk>>
    /\ UNCHANGED <<runVars, queueVars, tips, staged, tmpfiles, convVars, tmp_branch, alloc>>

\* except Exception: git reset --hard original_head, then `continue`.
ExcReset ==
    /\ pc = "exc_reset"
    /\ \/ /\ tips' = TipsAfterReset(original_head)
          /\ disk' = DiskAt(original_head)
          /\ staged' = {}
          /\ Continue([cur EXCEPT !.rb = "complete"])
       \/ /\ Continue([cur EXCEPT !.rb = "reset_failed"])
          /\ UNCHANGED <<tips, disk, staged>>
    /\ UNCHANGED <<runVars, queueVars, head, tmpfiles, convVars, tmp_branch, alloc>>

\* except KeyboardInterrupt: checkout_branch(original_branch); a failure is
\* logged and the loop is left.
KbdCheckout ==
    /\ pc = "kbd_checkout"
    /\ \/ /\ ~CheckoutConflict(original_branch)
          /\ head' = original_branch
          /\ disk' = DiskAfterCheckout(original_branch)
          /\ cur' = [cur EXCEPT !.rb = "checkout_ok"]
          /\ pc' = "kbd_reset"
          /\ UNCHANGED <<idx, hist>>
       \/ /\ Break([cur EXCEPT !.rb = "checkout_failed"])
          /\ UNCHANGED <<head, disk>>
    /\ UNCHANGED <<runVars, queueVars, tips, staged, tmpfiles, convVars, tmp_branch, alloc>>

\* except KeyboardInterrupt: git reset --hard original_head, then `break`.
KbdReset ==
    /\ pc = "kbd_reset"
    /\ \/ /\ tips' = TipsAfterReset(original_head)
          /\ disk' = DiskAt(original_head)
          /\ staged' = {}
          /\ Break([cur EXCEPT !.rb = "complete"])
       \/ /\ Break([cur EXCEPT !.rb = "reset_failed"])
          /\ UNCHANGED <<tips, disk, staged>>
    /\ UNCHANGED <<runVars, queueVars, head, tmpfiles, convVars, tmp_branch, alloc>>

\* ------------------------------------------------------------ the interrupt
\* The statements of the try body (the rollback after a failed test included).
TryBody ==
    {"reset_hard", "clean", "list_branches", "checkout_b", "exists", "call", "sleep",
     "write_tmp", "replace", "run_test", "diff", "diff_cached", "add", "commit",
     "upload", "nc_checkout", "nochg_checkout", "ok_checkout", "remove",
     "tf_checkout", "tf_reset"}

\* The statements of the two except clauses.
Handlers == {"exc_checkout", "exc_reset", "kbd_checkout", "kbd_reset"}

\* KeyboardInterrupt in the try body: the statement does not complete and
\* `except KeyboardInterrupt` runs.
Interrupt ==
    /\ pc \in TryBody
    /\ pc' = "kbd_checkout"
    /\ cur' = [cur EXCEPT !.intr = pc, !.rb = "none"]
    /\ UNCHANGED <<runVars, queueVars, gitVars, convVars, idx, tmp_branch, alloc, hist>>

\* KeyboardInterrupt while remove_processed_path has the queue file open for
\* writing: the file keeps the lines written so far.
InterruptRewrite ==
    /\ pc = "remove"
    /\ queueFile' \in PartialRewrites(queueFile, cur.path)
    /\ pc' = "kbd_checkout"
    /\ cur' = [cur EXCEPT !.intr = "rewrite", !.removed = "failed"]
    /\ UNCHANGED <<runVars, queue0, gitVars, convVars, idx, tmp_branch, alloc, hist>>

\* KeyboardInterrupt inside an except clause: no clause of the same try
\* statement catches it, and it ends main.
InterruptHandler ==
    /\ pc \in Handlers
    /\ pc' = "crashed"
    /\ cur' = [cur EXCEPT !.intr = pc]
    /\ hist' = Append(hist, Summary(cur))
    /\ UNCHANGED <<runVars, queueVars, gitVars, convVars, idx, tmp_branch, alloc>>

\* ------------------------------------------------------------ specification
\* One step of main.  The interrupt actions come first: where an interrupt can
\* arrive, ENABLED Next is decided by them, without evaluating the statement.
Next ==
    \/ Interrupt \/ InterruptRewrite \/ InterruptHandler
    \/ ResolveSrc \/ InitGemini \/ ReadQueue \/ CurrentBranch \/ HeadSha \/ LoopNext
    \/ ResetHard \/ Clean \/ ListBranches \/ CheckoutNew
    \/ Exists \/ Call \/ Sleep \/ WriteTmp \/ Replace
    \/ RunTest \/ Diff \/ DiffCached \/ GitAdd \/ GitCommit \/ Upload
    \/ CheckoutOriginal \/ Remove
    \/ TfCheckout \/ TfReset \/ ExcCheckout \/ ExcReset \/ KbdCheckout \/ KbdReset

Spec == Init /\ [][Next]_vars

\* ------------------------------------- remove_processed_path on its own
\* Lines of a queue file: blank lines, a path with and without surrounding
\* whitespace, a path with inner whitespace, another path.
RemoveLines ==
    {<<>>, <<" ">>, <<"a">>, <<" ", "a">>, <<"a", "\t">>, <<"a", " ", "a">>, <<"b">>}

\* Values of processed_path.
RemoveItems == {<<"a">>, <<" ", "a", " ">>, <<"b">>, <<"a", " ", "a">>}

InitRemove ==
    /\ pc = "remove_call"
    /\ n = 1
    /\ queueFile \in BoundedSeq(RemoveLines, MaxLines)
    /\ queue0 = queueFile
    /\ InitRepo
    /\ InitLocals
    /\ \E item \in RemoveItems : cur = NewItem(item)

\* remove_processed_path(queue_file_path, processed_path), every I/O call
\* succeeding.
RemoveCall ==
    /\ pc = "remove_call"
    /\ queueFile' = remove_processed_path(queueFile, cur.path)
    /\ pc' = "remove_done"
    /\ UNCHANGED <<runVars, queue0, gitVars, convVars, idx, tmp_branch, alloc, cur, hist>>

NextRemove == RemoveCall

SpecRemove == InitRemove /\ [][NextRemove]_vars

\* ------------------------------------- get_next_automate_branch on its own
\* Suffixes of the branch names of a repository.
Suffixes ==
    {<<>>, <<"1">>, <<"3">>, <<"9">>, <<"0", "7">>, <<"1", "0">>, <<"x">>,
     <<"2", "x">>, <<"sup2">>}

BranchNames == {Baseline} \cup {Automate(sfx) : sfx \in Suffixes}

InitAlloc ==
    /\ pc = "alloc_call"
    /\ n = 1
    /\ queueFile = <<>>
    /\ queue0 = <<>>
    /\ \E names \in SUBSET BranchNames :
          /\ names # {}
          /\ Cardinality(names) <= MaxBranches
          /\ tips = [b \in names |-> BaseCommit]
    /\ head \in DOMAIN tips
    /\ disk = [p \in Paths |-> BaseContent(p)]
    /\ staged = {}
    /\ tmpfiles = NoTmpFiles
    /\ InitLocals
    /\ cur = NoItem

\* get_next_automate_branch(cwd), the git command succeeding.
AllocCall ==
    /\ pc = "alloc_call"
    /\ alloc' = get_next_automate_branch(git_branch_list(DOMAIN tips, head))
    /\ pc' = "alloc_done"
    /\ UNCHANGED <<runVars, queueVars, gitVars, convVars, idx, tmp_branch, cur, hist>>

NextAlloc == AllocCall

SpecAlloc == InitAlloc /\ [][NextAlloc]_vars

\* ------------------------------------- convert_file_with_gemini on its own
\* Contents of the target file: a text, the same text with leading
\* whitespace, another text, and no file at all.
FileContents == {<<"x">>, <<" ", "x">>, <<"y">>, Absent}

\* The item's branch was created and checked out; process_file_with_abs_path
\* is about to be called.
InitConvert ==
    /\ pc = "exists"
    /\ n = 1
    /\ queueFile = <<>>
    /\ queue0 = <<>>
    /\ head = Baseline
    /\ tips = (Baseline :> BaseCommit)
    /\ disk \in [Paths -> FileContents]
    /\ staged = {}
    /\ tmpfiles = NoTmpFiles
    /\ InitLocals
    /\ \E p \in Paths : cur = NewItem(p)

NextConvert == Exists \/ Call \/ Sleep \/ WriteTmp \/ Replace

SpecConvert == InitConvert /\ [][NextConvert]_vars

\* ------------------------------------------------------------- automate.py
\* automate.py is the single-file script: its main (lines 321-438) and its
\* helpers for the queue, git and the test have the text of
\* automate_convert_and_upload.py and core.py, and the actions above stand for
\* them too.  Its client set-up, retry loop and conversion are inlined, not
\* delegated to gemini.py, and have their own constants; they are modelled
\* here from automate.py.
AUTOMATE_MAX_API_RETRIES == 4

\* automate.py's API_BACKOFF_BASE, 1.5, in tenths.
AUTOMATE_API_BACKOFF_BASE_TENTHS == 15

\* automate.py's wait, in milliseconds.
automate_wait(k) ==
    (1000 * pow(AUTOMATE_API_BACKOFF_BASE_TENTHS, k - 1)) \div pow(10, k - 1) + k * 100

\* automate.py's initialize_gemini_client() in main's try.
AutomateInitGemini ==
    /\ pc = "init_gemini"
    /\ \E ok \in BOOLEAN : pc' = IF ok THEN "read_queue" ELSE "exit"
    /\ UNCHANGED <<runVars, queueVars, gitVars, convVars, idx, tmp_branch, alloc, cur, hist>>

\* automate.py's process_file_with_abs_path up to the call: p.exists(),
\* read_text, build_prompt.
AutomateExists ==
    /\ pc = "exists"
    /\ IF disk[cur.path] = Absent
       THEN Fail("not_found")
       ELSE /\ original' = disk[cur.path]
            /\ attempt' = 1
            /\ pc' = "call"
            /\ UNCHANGED <<runVars, queueVars, gitVars, new_content, resp, waits, idx,
                           tmp_branch, alloc, cur, hist>>

\* One attempt of automate.py's call_gemini_with_retries, and the comparison
\* of process_file_with_abs_path on a valid text.
AutomateCall ==
    /\ pc = "call"
    /\ \/ /\ resp' = <<>>
          /\ pc' = "sleep"
          /\ UNCHANGED <<runVars, queueVars, gitVars, attempt, new_content, original,
                         waits, idx, tmp_branch, alloc, cur, hist>>
       \/ \E text \in ResponseTexts(original) :
             LET new_text == new_text_of(text)
             IN  /\ resp' = <<text>>
                 /\ IF strip(new_text) = <<>>
                    THEN /\ pc' = "sleep"
                         /\ UNCHANGED <<runVars, queueVars, gitVars, attempt, new_content,
                                        original, waits, idx, tmp_branch, alloc, cur, hist>>
                    ELSE IF strip(new_text) = strip(original)
                    THEN /\ cur' = [cur EXCEPT !.conv = "no-change"]
                         /\ attempt' = 0
                         /\ waits' = <<>>
                         /\ pc' = "nc_checkout"
                         /\ UNCHANGED <<runVars, queueVars, gitVars, new_content, original,
                                        idx, tmp_branch, alloc, hist>>
                    ELSE /\ new_content' = new_text
                         /\ attempt' = 0
                         /\ waits' = <<>>
                         /\ pc' = "write_tmp"
                         /\ UNCHANGED <<runVars, queueVars, gitVars, original, idx,
                                        tmp_branch, alloc, cur, hist>>

\* The except clause of automate.py's call_gemini_with_retries, and its raise
\* after the loop.
AutomateSleep ==
    /\ pc = "sleep"
    /\ waits' = Append(waits, automate_wait(attempt))
    /\ resp' = <<>>
    /\ IF attempt < AUTOMATE_MAX_API_RETRIES
       THEN /\ attempt' = attempt + 1
            /\ pc' = "call"
            /\ UNCHANGED <<runVars, queueVars, gitVars, new_content, original, idx,
                           tmp_branch, alloc, cur, hist>>
       ELSE /\ Raise("exhausted")
            /\ UNCHANGED <<runVars, queueVars, gitVars, attempt, new_content, original,
                           idx, tmp_branch, alloc, hist>>

\* automate.py's tmp.write_text(new_content).
AutomateWriteTmp ==
    /\ pc = "write_tmp"
    /\ \/ /\ tmpfiles' = [tmpfiles EXCEPT ![cur.path] = new_content]
          /\ pc' = "replace"
          /\ UNCHANGED <<runVars, queueVars, head, tips, disk, staged, convVars, idx,
                         tmp_branch, alloc, cur, hist>>
       \/ /\ \E left \in {tmpfiles[cur.path]}
                         \cup {SubSeq(new_content, 1, k) : k \in 0..(Len(new_content) - 1)} :
                tmpfiles' = [tmpfiles EXCEPT ![cur.path] = left]
          /\ Raise("write_tmp")
          /\ UNCHANGED <<runVars, queueVars, head, tips, disk, staged, convVars, idx,
                         tmp_branch, alloc, hist>>

\* automate.py's os.replace(tmp, p); return "modified".
AutomateReplace ==
    /\ pc = "replace"
    /\ \/ /\ disk' = [disk EXCEPT ![cur.path] = tmpfiles[cur.path]]
          /\ tmpfiles' = [tmpfiles EXCEPT ![cur.path] = Absent]
          /\ new_content' = None
          /\ resp' = <<>>
          /\ cur' = [cur EXCEPT !.conv = "modified"]
          /\ pc' = "run_test"
          /\ UNCHANGED <<runVars, queueVars, head, tips, staged, attempt, original, waits,
                         idx, tmp_branch, alloc, hist>>
       \/ Fail("replace")

\* One step of automate.py's main.
NextAutomate ==
    \/ Interrupt \/ InterruptRewrite \/ InterruptHandler
    \/ ResolveSrc \/ AutomateInitGemini \/ ReadQueue \/ CurrentBranch \/ HeadSha
    \/ LoopNext \/ ResetHard \/ Clean \/ ListBranches \/ CheckoutNew
    \/ AutomateExists \/ AutomateCall \/ AutomateSleep \/ AutomateWriteTmp
    \/ AutomateReplace
    \/ RunTest \/ Diff \/ DiffCached \/ GitAdd \/ GitCommit \/ Upload
    \/ CheckoutOriginal \/ Remove
    \/ TfCheckout \/ TfReset \/ ExcCheckout \/ ExcReset \/ KbdCheckout \/ KbdReset

\* The runs of the two scripts together: from one start, each step is a step
\* of either script.
SpecBoth == Init /\ [][Next \/ NextAutomate]_vars

\* =================================================================== claims
\* The number of lines of a file whose stripped text is `path`.
Occurrences(file, path) == Cardinality({i \in 1..Len(file) : strip(file[i]) = path})

\* The number of lines of a file equal to `line`.
Copies(file, line) == Cardinality({i \in 1..Len(file) : file[i] = line})

\* The paths of the items that reached a terminal success state so far.
SucceededPaths ==
    {hist[k].path : k \in {j \in 1..Len(hist) : Success(hist[j])}}
        \cup (IF Success(cur) THEN {cur.path} ELSE {})

\* Between items, or after the run: no item is in flight and one has finished.
ItemBoundary == pc \in {"loop", "done", "crashed"} /\ hist # <<>>

\* C1: a queue line is missing from the queue file only if an item with its
\* trimmed text reached a terminal success state (NoChange, Modified + Pass +
\* no changes, Modified + Pass + uploaded), and an item that ended otherwise
\* was not removed by its processing.
C1_RemovedOnlyAfterSuccess ==
    /\ \A i \in 1..Len(queue0) :
          Copies(queueFile, queue0[i]) < Copies(queue0, queue0[i])
              => strip(queue0[i]) \in SucceededPaths
    /\ \A k \in 1..Len(hist) : ~Success(hist[k]) => hist[k].removed = "none"

\* C2: every finished item that reached a terminal success state has no line
\* left in the queue file, whatever the checkout and the queue rewrite that
\* followed did.
C2_SuccessRemoved ==
    \A k \in 1..Len(hist) :
        Success(hist[k]) => Occurrences(queueFile, hist[k].path) = 0

\* C3: at every item boundary the workspace is checked out on the branch
\* captured at the start of the run.
C3_BoundaryOnBaseline == ItemBoundary => head = original_branch

\* C4: a branch allocated in the run points beyond the baseline commit only
\* if validation passed for the item it was allocated for, and nothing is
\* staged for an item before its validation passed.
C4_CommitOnlyIfPass ==
    /\ cur.branch # None /\ tips[cur.branch] # original_head => cur.test = "pass"
    /\ \A k \in 1..Len(hist) :
          hist[k].branch # None /\ tips[hist[k].branch] # original_head
              => hist[k].test = "pass"
    /\ cur.staged => cur.test = "pass"

\* C5: when the processing of an item whose validation failed ends, its
\* branch exists and has no commit beyond the baseline, the workspace is on
\* the baseline branch at the baseline commit with the files of that commit,
\* and every queue line of the item is still there.
C5_ValidationFailEnd ==
    ItemBoundary /\ cur.test = "fail" =>
        /\ cur.branch \in DOMAIN tips
        /\ tips[cur.branch] = original_head
        /\ head = original_branch
        /\ tips[head] = original_head
        /\ disk = DiskAt(original_head)
        /\ Occurrences(queueFile, cur.path) = Occurrences(queue0, cur.path)
        /\ Occurrences(queueFile, cur.path) >= 1

\* A step of the pipeline named by C6 fails: a command or call of the try
\* body raises, or the branch listing or a diff exits with an error.
PipelineFailure ==
    \/ cur'.err # cur.err /\ cur'.err # "none"
    \/ cur'.swallowed # cur.swallowed /\ cur'.swallowed \in {"list_branches", "diff"}

\* C6: a failure of a pipeline step is caught at the item boundary (the next
\* statement is the checkout of the baseline branch in `except Exception`);
\* that checkout is followed by the hard reset to the baseline commit; the
\* queue is left alone; and the loop then goes on to the next item.
C6_FailureRollsBack ==
    [][/\ PipelineFailure => pc' = "exc_checkout" /\ queueFile' = queueFile
       /\ pc = "exc_checkout" /\ pc' \notin {"exc_checkout", "crashed"}
             => pc' = "exc_reset" /\ head' = original_branch /\ queueFile' = queueFile
       /\ pc = "exc_reset" /\ pc' \notin {"exc_reset", "crashed"}
             => pc' = "loop" /\ idx' = idx + 1 /\ queueFile' = queueFile]_vars

\* C7: once an interrupt arrived for the item in flight no other item is
\* started, and when the run has stopped the rollback of that item is
\* complete: the workspace is on the baseline branch at the baseline commit.
C7_InterruptRollsBackAndStops ==
    cur.intr # "none" =>
        /\ pc \in {"kbd_checkout", "kbd_reset", "done", "crashed"}
        /\ pc \in {"done", "crashed"} =>
              /\ head = original_branch
              /\ tips[head] = original_head
              /\ disk = DiskAt(original_head)

\* The decimal suffixes of the automate branches among `names`.
NumericSuffixes(names) ==
    {Tail(b) : b \in {c \in names : /\ startswith_automate(c)
                                     /\ Tail(c) # <<>>
                                     /\ \A i \in 1..Len(Tail(c)) : Tail(c)[i] \in DecimalDigits}}

\* The reference of C8: the largest numeric suffix, 0 when there is none.
MaxSuffix(names) ==
    LET nums == {int(sfx) : sfx \in NumericSuffixes(names)} \cup {0}
    IN  CHOOSE m \in nums : \A k \in nums : k <= m

\* C8: branch allocation returns "automate" + (largest numeric suffix + 1),
\* "automate1" when no branch has a numeric suffix; every other branch is
\* ignored.
C8_AllocMaxPlusOne ==
    pc = "alloc_done" =>
        /\ ~alloc.raised
        /\ alloc.branch = Automate(format_int(MaxSuffix(DOMAIN tips) + 1))

\* Supporting C8: the same, for repositories in which every automate branch
\* has a suffix int() can read or str.isdigit() rejects.
AllocMaxPlusOneWhenReadable ==
    pc = "alloc_done"
    /\ (\A b \in DOMAIN tips :
            startswith_automate(b) /\ isdigit(Tail(b)) => ~int_raises(Tail(b)))
        => /\ ~alloc.raised
           /\ alloc.branch = Automate(format_int(MaxSuffix(DOMAIN tips) + 1))

\* C9: branches are never deleted, a new branch has a name that was not in
\* use, and its suffix is greater than every numeric suffix that existed.
C9_BranchesGrowIncreasing ==
    [][/\ DOMAIN tips \subseteq DOMAIN tips'
       /\ \A b \in DOMAIN tips' \ DOMAIN tips :
             /\ b \in {Automate(sfx) : sfx \in NumericSuffixes({b})}
             /\ int(Tail(b)) > MaxSuffix(DOMAIN tips)]_vars

\* Supporting C9: branches are never deleted, and only the checked-out branch
\* moves.
BranchesOnlyGrow ==
    [][/\ DOMAIN tips \subseteq DOMAIN tips'
       /\ \A b \in DOMAIN tips : tips'[b] # tips[b] => b = head]_vars

\* Supporting C9: when the branch listing succeeded, the new branch has a
\* decimal suffix greater than every decimal suffix that existed.
BranchesIncreaseWhenListed ==
    [][\A b \in DOMAIN tips' \ DOMAIN tips :
           cur.swallowed # "list_branches"
           => /\ b \in {Automate(sfx) : sfx \in NumericSuffixes({b})}
              /\ int(Tail(b)) > MaxSuffix(DOMAIN tips)]_vars

\* The i-th line, in file order, of those `file` lines whose stripped text
\* is not `item`.
KeptIndexes(file, item) == {i \in 1..Len(file) : strip(file[i]) # item}
KthKept(file, item, k) ==
    CHOOSE i \in KeptIndexes(file, item) :
        Cardinality({j \in KeptIndexes(file, item) : j <= i}) = k

ConvertPcs == {"call", "sleep", "write_tmp", "replace"}

\* C11: attempts are numbered from 1 and never beyond MAX_API_RETRIES; an
\* attempt whose response has a non-blank text returns, so no further attempt
\* is made; and "All Gemini attempts failed." is raised after a failed attempt
\* number MAX_API_RETRIES, and only then.
C11_AtMostFourAttempts ==
    [][/\ pc' = "call" =>
             /\ attempt' <= MAX_API_RETRIES
             /\ \/ pc = "exists" /\ attempt' = 1
                \/ pc = "sleep" /\ attempt' = attempt + 1
       /\ pc = "call" /\ Len(resp') = 1 /\ strip(resp'[1]) # <<>>
             => pc' \in {"nc_checkout", "write_tmp"}
       /\ cur'.err = "exhausted" /\ cur.err # "exhausted"
             => pc = "sleep" /\ attempt = MAX_API_RETRIES
       /\ pc = "sleep" /\ attempt = MAX_API_RETRIES /\ pc' # "kbd_checkout"
             => cur'.err = "exhausted"]_vars

\* C11 happens: four attempts failed and the fatal error was raised.
C11_Witness ==
    /\ cur.err = "exhausted"
    /\ attempt = MAX_API_RETRIES
    /\ pc = "exc_checkout"

\* The waits of C12, in milliseconds: 1.5^0 + 0.1, 1.5^1 + 0.2, 1.5^2 + 0.3.
ThreeWaits == <<1100, 1700, 2550>>

\* C12: the conversion call sleeps only between a failed attempt and the next
\* one, for 1.5^(k-1) + k*0.1 seconds after attempt k, and so three times
\* when every attempt fails.
C12_WaitsOnlyBetweenAttempts ==
    /\ Len(waits) <= Len(ThreeWaits)
    /\ \A k \in 1..Len(waits) : k <= Len(ThreeWaits) => waits[k] = ThreeWaits[k]
    /\ pc = "call" => Len(waits) = attempt - 1
    /\ cur.err = "exhausted" => waits = ThreeWaits

\* Supporting C12: the k-th sleep lasts 1.5^(k-1) + k*0.1 seconds, and there
\* is one sleep per failed attempt, the last attempt included.
WaitsAfterEveryFailure ==
    /\ \A k \in 1..Len(waits) : k <= Len(ThreeWaits) => waits[k] = ThreeWaits[k]
    /\ pc = "call" => Len(waits) = attempt - 1
    /\ pc = "sleep" => Len(waits) = attempt - 1
    /\ cur.err = "exhausted" => Len(waits) = MAX_API_RETRIES

\* C13: an attempt whose response text is empty or blank is a failed attempt
\* (the except clause runs), and what such a response stands for is neither
\* returned as new content nor written to a file.
C13_EmptyResponseIsFailure ==
    /\ Len(resp) = 1 /\ strip(resp[1]) = <<>> => pc = "sleep" /\ new_content = None
    /\ new_content # ReprText
    /\ \A p \in Paths : disk[p] # ReprText /\ tmpfiles[p] # ReprText

\* Supporting C13: a response whose text is blank but not empty is a failed
\* attempt.
BlankResponseIsFailure ==
    Len(resp) = 1 /\ resp[1] # <<>> /\ strip(resp[1]) = <<>>
        => pc = "sleep" /\ new_content = None

\* C14: when the conversion returned "no-change" the target file holds what
\* was read from it, it has no temporary sibling, and the item staged and
\* committed nothing.
C14_NoChangeFrame ==
    cur.conv = "no-change" =>
        /\ pc = "nc_checkout" => disk[cur.path] = original
        /\ tmpfiles[cur.path] = Absent
        /\ ~cur.staged
        /\ ~cur.committed

\* C14 happens: the conversion of an existing file has just returned
\* "no-change" for a response that differs from the file by whitespace.
C14_Witness ==
    /\ cur.conv = "no-change"
    /\ pc = "nc_checkout"
    /\ Len(resp) = 1
    /\ resp[1] # original
    /\ original # Absent

\* C15: while the conversion runs the target file holds the content read
\* from it; between the write of the temporary file and the replace the
\* temporary file holds the whole new content; and a step of the conversion
\* leaves the target file with the original content, or, when it is the
\* replace that succeeds, with the whole new content.
C15_AtomicWrite ==
    [][(pc \in ConvertPcs) =>
          /\ disk[cur.path] = original
          /\ pc = "replace" => tmpfiles[cur.path] = new_content
          /\ disk'[cur.path] = (IF pc = "replace" /\ pc' = "run_test"
                                THEN new_content ELSE original)]_vars

\* C15 happens: the temporary file is written and the replace has not run.
C15_Witness ==
    /\ pc = "replace"
    /\ tmpfiles[cur.path] = new_content
    /\ new_content # original
    /\ disk[cur.path] = original

\* The paths of the items the run has started, in the order it started them.
StartedPaths ==
    [k \in 1..Len(hist) |-> hist[k].path]
        \o (IF pc \in TryBody \cup Handlers THEN <<cur.path>> ELSE <<>>)

\* The queue as the run loaded it: the stripped non-blank lines.
LoadedQueue == stripped_paths(read_file_paths_raw(queue0))

IsPrefix(s, t) == Len(s) <= Len(t) /\ SubSeq(t, 1, Len(s)) = s

\* C16: the items started are a prefix of the loaded queue, an item is started
\* only if that keeps their number within n, and when the reset of an item
\* begins every item before it has finished.
C16_PrefixOfAtMostN ==
    /\ IsPrefix(StartedPaths, LoadedQueue)
    /\ StartedPaths # <<>> => Len(StartedPaths) <= n
    /\ pc = "reset_hard" => Len(hist) = idx - 1 /\ cur.path = LoadedQueue[idx]

\* Supporting C16: the same when n is not negative.
PrefixOfAtMostNonNegativeN ==
    n >= 0 =>
        /\ IsPrefix(StartedPaths, LoadedQueue)
        /\ StartedPaths # <<>> => Len(StartedPaths) <= n
        /\ pc = "reset_hard" => Len(hist) = idx - 1 /\ cur.path = LoadedQueue[idx]

\* Scenario A has run to its end: the queue was [a, b] with n >= 2; a was
\* converted, passed its test, had changes, and its upload, checkout and
\* queue rewrite succeeded; b was converted and failed its test, and its
\* rollback ran without an error or an interrupt.
ScenarioA ==
    /\ pc = "done"
    /\ n >= 2
    /\ Len(queue0) = 2
    /\ strip(queue0[1]) = PathA
    /\ strip(queue0[2]) = PathB
    /\ Len(hist) = 2
    /\ hist[1].path = PathA
    /\ hist[1].conv = "modified"
    /\ hist[1].test = "pass"
    /\ hist[1].changes = "yes"
    /\ hist[1].uploaded
    /\ hist[1].removed = "done"
    /\ cur.path = PathB
    /\ cur.conv = "modified"
    /\ cur.test = "fail"
    /\ cur.rb = "complete"
    /\ cur.err = "none"
    /\ cur.intr = "none"

\* C17: at the end of scenario A the queue file holds b's line alone, each
\* item has its own branch and both are retained, a's branch carries one
\* commit, of a, and no other branch carries any, and the workspace is on the
\* baseline branch at the baseline commit with the files of that commit.
C17_ScenarioA ==
    ScenarioA =>
        /\ queueFile = <<queue0[2]>>
        /\ hist[1].branch # cur.branch
        /\ {hist[1].branch, cur.branch} \subseteq DOMAIN tips
        /\ startswith_automate(hist[1].branch) /\ startswith_automate(cur.branch)
        /\ Len(tips[hist[1].branch]) = 1
        /\ tips[hist[1].branch][1].path = PathA
        /\ \A b \in DOMAIN tips \ {hist[1].branch} : tips[b] = BaseCommit
        /\ head = Baseline
        /\ original_branch = Baseline
        /\ tips[head] = original_head
        /\ disk = DiskAt(original_head)
        /\ staged = {}

\* C17 happens: scenario A ran to its end with the branch listing working.
C17_Witness == ScenarioA /\ cur.swallowed = "none"

\* C18: when an item whose test failed or whose conversion ran out of
\* attempts ends without an interrupt, the loop goes on with the next index;
\* the loop starts the reset of every item of the work list it comes to; and
\* a run that ended without interrupt or crash has finished every item of
\* the work list.
C18_FailureConfined ==
    /\ [][/\ (/\ cur.test = "fail" \/ cur.err = "exhausted"
              /\ pc \in TryBody \cup Handlers
              /\ pc' \notin TryBody \cup Handlers
              /\ cur'.intr = "none")
                => pc' = "loop" /\ idx' = idx + 1
          /\ (pc = "loop" /\ idx <= Len(abs_path_map))
                => pc' = "reset_hard" /\ cur'.path = abs_path_map[idx]]_vars
    /\ [](pc = "done" /\ cur.intr = "none" /\ original_branch # None
              => Len(hist) = Len(abs_path_map))

\* C18 happens: the first item failed its test and the second item is being
\* converted.
C18_Witness ==
    /\ Len(hist) = 1
    /\ hist[1].test = "fail"
    /\ idx = 2
    /\ pc = "call"

\* C19: a run that ended in sys.exit(1) read and rewrote no queue, captured
\* no baseline, and touched neither the repository nor an item.
C19_ConfigErrorAborts ==
    pc = "exit" =>
        /\ queueFile = queue0
        /\ abs_path_map = <<>>
        /\ original_branch = None
        /\ head = Baseline
        /\ \A b \in DOMAIN tips : tips[b] = BaseCommit
        /\ DOMAIN tips = {Baseline, Automate(<<"2">>)}
        /\ disk = DiskAt(BaseCommit)
        /\ tmpfiles = NoTmpFiles
        /\ staged = {}
        /\ tmp_branch = None
        /\ alloc = NoAlloc
        /\ attempt = 0
        /\ resp = <<>>
        /\ cur = NoItem
        /\ hist = <<>>

\* C19 happens: the run ended in sys.exit(1) with a queue of two lines.
C19_Witness == pc = "exit" /\ Len(queueFile) = 2

\* The run is over: "All done." or an early return, sys.exit(1), or an
\* exception that left main.
Terminated == pc \in {"done", "exit", "crashed"}

\* main is one sequential thread: when every external call returns, the
\* statement it stands at is executed in the end, so a step that stays
\* possible is taken.
SpecLive == Init /\ [][Next]_vars /\ WF_vars(Next)

\* C20: every run ends, and the retry loop never goes beyond attempt
\* MAX_API_RETRIES.
C20_Terminates == <>Terminated /\ [](attempt <= MAX_API_RETRIES)

\* C20 happens: a run came to its end after a conversion ran out of attempts
\* and a second item was processed.
C20_Witness ==
    /\ pc = "done"
    /\ Len(hist) = 2
    /\ hist[1].conv = "none"
    /\ hist[1].branch # None
    /\ waits = <<>>

\* An item that ended, without an interrupt, because its file did not exist.
NotFoundEnded ==
    /\ pc \in {"loop", "done"}
    /\ cur.err = "not_found"
    /\ cur.intr = "none"

\* The missing file is found before any attempt, nothing is created or
\* changed by the conversion, and the handler that follows makes no call and
\* leaves the queue file alone.
NotFoundBeforeAnyCall ==
    /\ [][(pc = "exists" /\ disk[cur.path] = Absent /\ cur'.intr = "none")
             => /\ pc' = "exc_checkout"
                /\ cur'.err = "not_found"
                /\ attempt' = 0
                /\ UNCHANGED <<gitVars, convVars, queueVars>>]_vars
    /\ [][(cur.err = "not_found" /\ pc \in Handlers)
             => UNCHANGED <<queueVars, convVars, tmpfiles>>]_vars
    /\ [](NotFoundEnded /\ cur.rb = "complete"
             => /\ head = original_branch
                /\ tips[head] = original_head
                /\ disk = DiskAt(original_head)
                /\ staged = {})

\* C21: a missing file ends the conversion before any call and without a
\* file created or changed, and the item ends rolled back (on the baseline
\* branch at the baseline commit) with the queue file as it was.
C21_NotFound ==
    /\ NotFoundBeforeAnyCall
    /\ [](NotFoundEnded
             => /\ head = original_branch
                /\ tips[head] = original_head
                /\ disk = DiskAt(original_head))

\* The statements of create_temporary_branch.
AllocationPcs == {"list_branches", "checkout_b"}

\* C22: the hard reset, the clean and the branch allocation follow one
\* another in that order with nothing in between, the allocation changes
\* nothing of the working tree before the branch is created, and during the
\* allocation no tracked file is modified, nothing is staged and no
\* temporary file of an earlier item is left.
C22_ResetBeforeAllocation ==
    /\ [][/\ (pc' = "clean" /\ pc # "clean")
                => pc = "reset_hard" /\ disk' = DiskAt(tips[head]) /\ staged' = {}
          /\ (pc' = "list_branches" /\ pc # "list_branches")
                => pc = "clean" /\ tmpfiles' = NoTmpFiles
                     /\ UNCHANGED <<head, tips, disk, staged>>
          /\ (pc' = "checkout_b" /\ pc # "checkout_b")
                => pc = "list_branches" /\ UNCHANGED gitVars
          /\ (pc = "loop" /\ pc' # "done") => pc' = "reset_hard" /\ UNCHANGED gitVars
          /\ (cur'.branch # cur.branch /\ cur'.branch # None)
                => pc = "checkout_b"]_vars
    /\ [](pc \in AllocationPcs
             => /\ \A p \in Paths : ~Dirty(p)
                /\ staged = {}
                /\ tmpfiles = NoTmpFiles)

\* C22 happens: the second item is at its branch creation after the first
\* item, converted and failed, ended on its own branch with its rollback
\* given up.
C22_Witness ==
    /\ pc = "checkout_b"
    /\ idx = 2
    /\ Len(hist) = 1
    /\ hist[1].conv = "modified"
    /\ hist[1].test = "fail"
    /\ head = hist[1].branch

\* The guards of the per-item state machine, for an item record.
Guarded(it) ==
    /\ it.test # "none" => it.conv = "modified"
    /\ it.changes # "none" => it.test = "pass"
    /\ it.uploaded => it.test = "pass" /\ it.changes = "yes"

\* The statements of run_single_web_test, file_has_changes, commit_and_upload.
ValidationPcs == {"run_test"}
DetectionPcs == {"diff", "diff_cached"}
PublishPcs == {"add", "commit", "upload"}

\* C23: the test runs only on a Modified conversion, the change detection
\* only after a passed test, and stage, commit and upload only after a
\* passed test and detected changes; an item without change has no test and
\* no publish step, and an item without detected changes no publish step.
C23_StateMachineGuards ==
    /\ pc \in ValidationPcs => cur.conv = "modified" /\ cur.test = "none"
    /\ pc \in DetectionPcs => cur.conv = "modified" /\ cur.test = "pass"
    /\ pc \in PublishPcs
          => cur.conv = "modified" /\ cur.test = "pass" /\ cur.changes = "yes"
    /\ Guarded(cur)
    /\ cur.staged \/ cur.committed => cur.test = "pass" /\ cur.changes = "yes"
    /\ cur.conv = "no-change"
          => cur.test = "none" /\ cur.changes = "none" /\ ~cur.staged
               /\ ~cur.committed /\ ~cur.uploaded
    /\ cur.changes = "no" => ~cur.staged /\ ~cur.committed /\ ~cur.uploaded
    /\ \A i \in 1..Len(hist) : Guarded(hist[i])

\* C23 happens: after an item without change and removed, the second item
\* is being committed.
C23_Witness ==
    /\ pc = "commit"
    /\ Len(hist) = 1
    /\ hist[1].conv = "no-change"
    /\ hist[1].removed = "done"

\* An item that ended, without an interrupt, because a publish step failed.
PublishFailedEnded ==
    /\ pc \in {"loop", "done"}
    /\ cur.err \in PublishPcs
    /\ cur.intr = "none"

\* The workspace is on the baseline branch at the baseline commit, with the
\* files of that commit and nothing staged.
RolledBack ==
    /\ head = original_branch
    /\ tips[head] = original_head
    /\ disk = DiskAt(original_head)
    /\ staged = {}

\* git add, git commit and git cl upload run in that order, each once per
\* item; a failed one leaves the others out, goes to the handler of
\* `except Exception`, and the item does not touch the queue file; when both
\* commands of the handler succeed the workspace is rolled back.
PublishInOrderOnce ==
    /\ [][/\ (pc' = "add" /\ pc # "add") => pc \in DetectionPcs
          /\ (pc' = "commit" /\ pc # "commit") => pc = "add" /\ cur'.staged
          /\ (pc' = "upload" /\ pc # "upload") => pc = "commit" /\ cur'.committed
          /\ (cur'.staged /\ ~cur.staged) => pc = "add"
          /\ (cur'.committed /\ ~cur.committed) => pc = "commit"
          /\ (cur'.uploaded /\ ~cur.uploaded) => pc = "upload"
          /\ (pc \in PublishPcs /\ pc' \notin PublishPcs /\ cur'.intr = "none"
                 /\ ~cur'.uploaded)
                => /\ pc' = "exc_checkout"
                   /\ cur'.err = pc
                   /\ UNCHANGED <<gitVars, queueVars>>
          /\ (cur.err \in PublishPcs /\ pc \in Handlers) => UNCHANGED queueVars]_vars
    /\ [](/\ pc = "add" => ~cur.staged /\ ~cur.committed /\ ~cur.uploaded
          /\ pc = "commit" => cur.staged /\ ~cur.committed /\ ~cur.uploaded
          /\ pc = "upload" => cur.staged /\ cur.committed /\ ~cur.uploaded
          /\ cur.err = "add" => ~cur.staged /\ ~cur.committed /\ ~cur.uploaded
          /\ cur.err = "commit" => ~cur.committed /\ ~cur.uploaded
          /\ cur.err = "upload" => ~cur.uploaded
          /\ PublishFailedEnded /\ cur.rb = "complete" => RolledBack)

\* C24: stage, commit and upload run in that order, each at most once and
\* never again; a failed one stops the remaining ones; and the item ends
\* rolled back and left in the queue.
C24_PublishFailureRollsBack ==
    /\ PublishInOrderOnce
    /\ [](PublishFailedEnded => RolledBack)

\* The checkouts and the resets of the three rollbacks.
RollbackCheckouts == {"tf_checkout", "exc_checkout", "kbd_checkout"}
RollbackResets == {"tf_reset", "exc_reset", "kbd_reset"}

\* C25: original_branch and original_head are assigned at one place each,
\* reached once, before the loop; from the first item on they are the branch
\* and the commit the run started on; and every rollback checks out that
\* branch and resets to that commit.
C25_BaselineCapturedOnce ==
    /\ [][/\ pc # "cur_branch" => UNCHANGED original_branch
          /\ pc # "head_sha" => UNCHANGED original_head
          /\ (pc' = "cur_branch" /\ pc # "cur_branch") => pc = "read_queue"
          /\ (pc' = "head_sha" /\ pc # "head_sha") => pc = "cur_branch"
          /\ (pc \in RollbackCheckouts /\ head' # head) => head' = Baseline
          /\ (pc \in RollbackResets /\ cur'.rb = "complete")
                => /\ head' = Baseline
                   /\ tips'[Baseline] = BaseCommit
                   /\ disk' = DiskAt(BaseCommit)]_vars
    /\ [](pc \in {"loop"} \cup TryBody \cup Handlers
             => original_branch = Baseline /\ original_head = BaseCommit)

\* C25 happens: the second item is rolled back to the baseline after the
\* first item was committed and uploaded and left the workspace on its own
\* branch.
C25_Witness ==
    /\ pc = "loop"
    /\ idx = 3
    /\ Len(hist) = 2
    /\ hist[1].uploaded
    /\ hist[2].branch # None
    /\ tips[hist[2].branch] # BaseCommit
    /\ cur.rb = "complete"
    /\ head = Baseline

OtherLinesKept ==
    \A i \in 1..Len(queueFile) :
        strip(queueFile[i]) # cur.path
            => Copies(queueFile', queueFile[i]) = Copies(queueFile, queueFile[i])

\* A rewrite that runs to its end, or fails before the file is opened for
\* writing, keeps the lines of every other item.
CompletedRewriteKeepsOthers ==
    [][(pc = "remove" /\ (cur'.removed = "done" \/ queueFile' = queueFile))
          => OtherLinesKept]_vars

\* C27: the queue file changes only in remove_processed_path, called for an
\* item in a terminal success state, and whatever happens to that call
\* (completion, I/O failure, interrupt) the lines of every other item stay
\* in the file.
C27_QueueNeverCorrupted ==
    [][/\ pc # "remove" => UNCHANGED queueFile
       /\ pc = "remove" => Success(cur) /\ OtherLinesKept]_vars

\* A branch created while the workspace is on the baseline branch is created
\* at the baseline commit.
AllocatedAtBaselineFromBaselineBranch ==
    [][(pc = "checkout_b" /\ cur'.branch # None /\ head = original_branch)
          => tips'[cur'.branch] = original_head]_vars

\* C28: every branch that create_temporary_branch creates is created with
\* the workspace at the baseline commit, and so points at it.
C28_AllocatedAtBaseline ==
    [][(pc = "checkout_b" /\ cur'.branch # None)
          => /\ tips[head] = original_head
             /\ tips'[cur'.branch] = original_head]_vars

\* C29: the branch the run started on points at the commit the run started
\* at in every state; a branch gains a commit only in git commit, and then it
\* is the checked-out branch, created for the item in flight, and not the
\* baseline branch.
C29_BaselineGainsNoCommit ==
    /\ [](tips[Baseline] = BaseCommit)
    /\ [](pc \in PublishPcs
             => head = cur.branch /\ head = tmp_branch /\ head # Baseline)
    /\ [][\A b \in DOMAIN tips :
             Len(tips'[b]) > Len(tips[b])
                => /\ pc = "commit"
                   /\ b = head
                   /\ b = cur.branch
                   /\ b # Baseline
                   /\ startswith_automate(b)]_vars

\* C29 happens: the first item was committed and uploaded on its branch and
\* the workspace is back on the baseline branch.
C29_Witness ==
    /\ pc = "loop"
    /\ Len(hist) = 1
    /\ hist[1].uploaded
    /\ tips[hist[1].branch] # BaseCommit
    /\ head = Baseline

\* Without duplicates among the first n lines of the queue, no item is
\* allocated a branch or converted after a removal of its path ran to its end.
NoReprocessingWithoutDuplicates ==
    (/\ pc \in AllocationPcs \cup ConvertPcs
     /\ \A i, j \in 1..Len(abs_path_map) : abs_path_map[i] = abs_path_map[j] => i = j)
        => \A k \in 1..Len(hist) : hist[k].removed = "done" => hist[k].path # cur.path

\* C30: an item in its branch allocation or its conversion is not an item
\* whose path an earlier removal of this run took out of the queue file.
C30_RemovedItemNotReprocessed ==
    pc \in AllocationPcs \cup ConvertPcs
        => \A k \in 1..Len(hist) : hist[k].removed = "done" => hist[k].path # cur.path

====
